---- MODULE Spec2Model ----
(***************************************************************************)
(* Model of the cinema-data pipeline: scraper.py (fetch_and_process_movies *)
(* with its self-correction loop and last-known-good fallback) and         *)
(* fixer.py (fix_broken_json).                                             *)
(*                                                                         *)
(* A text (the content of a file, or the raw text the model returns) is a  *)
(* sequence of tokens:                                                     *)
(*   "["  "]"  ","   JSON punctuation                                      *)
(*   "ws"            white space (newline and indentation)                 *)
(*   "M"  / "Mi"     an object literal holding every field MOVIE_SCHEMA    *)
(*                   requires, written compactly / with indent=2           *)
(*   "T"  / "Ti"     the object literal {"title": "X"}, compact / indented *)
(*   "null"          the JSON literal null                                 *)
(*   "x"             a word that is not JSON ("not json at all")           *)
(*   "bad"           bytes that are not valid UTF-8 (a multi-byte          *)
(*                   character cut in two by an interrupted write)         *)
(* Arrays are flat: the texts of the model never nest an array in an array.*)
(***************************************************************************)
EXTENDS Integers, Sequences, FiniteSets, TLC

\* scraper.py:13 and fixer.py:13
MAX_RETRIES == 2

\* Number of runs (of either script) started in one behaviour.
MaxRuns == 2

VARIABLES
    slot,      \* movies.json  (OUTPUT_FILENAME / FINAL_OUTPUT_FILENAME)
    temp,      \* movies_temp.json  (TEMP_INPUT_FILENAME)
    srcfile,   \* source_page.html  (SOURCE_HTML_FILENAME)
    ctx,       \* per process: the locals of the running function, and its history
    runs       \* runs started so far

vars == <<slot, temp, srcfile, ctx, runs>>

-----------------------------------------------------------------------------
(* Python values produced by json.loads                                    *)

PyNone == [t |-> "null", items |-> <<>>]
PyList(items) == [t |-> "arr", items |-> items]
PyDict(item) == [t |-> "obj", items |-> <<item>>]

\* bool(v) as `if last_known_good_data:` evaluates it: None and [] are falsy,
\* a non-empty list and a non-empty dict are truthy.
Truthy(v) ==
    CASE v.t = "null" -> FALSE
      [] v.t = "arr"  -> Len(v.items) > 0
      [] OTHER        -> TRUE

\* MOVIE_SCHEMA: an ARRAY whose items are OBJECTs with every required field.
SchemaConformant(v) ==
    /\ v.t = "arr"
    /\ \A i \in 1..Len(v.items) : v.items[i] = "movie"

IsElem(tok) == tok \in {"M", "Mi", "T", "Ti", "null"}

ItemOf(tok) ==
    CASE tok \in {"M", "Mi"} -> "movie"
      [] tok \in {"T", "Ti"} -> "partial"
      [] OTHER               -> "null"

ValueOf(tok) == IF tok = "null" THEN PyNone ELSE PyDict(ItemOf(tok))

ParseOk(v) == [ok |-> TRUE, val |-> v, msg |-> "", pos |-> 0]
ParseErr(msg, pos) == [ok |-> FALSE, val |-> PyNone, msg |-> msg, pos |-> pos]

RECURSIVE SkipWs(_, _)
SkipWs(s, i) == IF i <= Len(s) /\ s[i] = "ws" THEN SkipWs(s, i + 1) ELSE i

\* After the top-level value: only white space may follow.
Finish(s, v, n) ==
    LET e == SkipWs(s, n)
    IN  IF e > Len(s) THEN ParseOk(v) ELSE ParseErr("Extra data", e - 1)

RECURSIVE ParseItems(_, _, _)
ParseItems(s, i, acc) ==
    LET j == SkipWs(s, i)
    IN  IF j > Len(s) \/ ~IsElem(s[j])
        THEN ParseErr("Expecting value", j - 1)
        ELSE LET k == SkipWs(s, j + 1)
                 got == Append(acc, ItemOf(s[j]))
             IN  IF k > Len(s) THEN ParseErr("Expecting ',' delimiter", k - 1)
                 ELSE IF s[k] = "]" THEN Finish(s, PyList(got), k + 1)
                 ELSE IF s[k] = "," THEN ParseItems(s, k + 1, got)
                 ELSE ParseErr("Expecting ',' delimiter", k - 1)

\* json.loads: strict parse, JSONDecodeError carries a message and a position.
Loads(s) ==
    LET i == SkipWs(s, 1)
    IN  IF i > Len(s) THEN ParseErr("Expecting value", i - 1)
        ELSE IF IsElem(s[i]) THEN Finish(s, ValueOf(s[i]), i + 1)
        ELSE IF s[i] = "["
             THEN LET j == SkipWs(s, i + 1)
                  IN  IF j <= Len(s) /\ s[j] = "]"
                      THEN Finish(s, PyList(<<>>), j + 1)
                      ELSE ParseItems(s, i + 1, <<>>)
        ELSE ParseErr("Expecting value", i - 1)

TokOf(item) ==
    CASE item = "movie"   -> "Mi"
      [] item = "partial" -> "Ti"
      [] OTHER            -> "null"

RECURSIVE DumpItems(_, _)
DumpItems(items, i) ==
    IF i > Len(items) THEN <<"ws", "]">>
    ELSE <<"ws", TokOf(items[i])>>
         \o (IF i < Len(items) THEN <<",">> ELSE <<>>)
         \o DumpItems(items, i + 1)

\* json.dump(v, f, indent=2, ensure_ascii=False): the text written for v.
Dumps(v) ==
    CASE v.t = "null" -> <<"null">>
      [] v.t = "obj"  -> <<TokOf(v.items[1])>>
      [] OTHER        -> IF Len(v.items) = 0 THEN <<"[", "]">>
                         ELSE <<"[">> \o DumpItems(v.items, 1)

-----------------------------------------------------------------------------
(* Files                                                                   *)

Absent == [exists |-> FALSE, text |-> <<>>]
FileOf(text) == [exists |-> TRUE, text |-> text]

\* open(name, 'r', encoding='utf-8') followed by f.read() / json.load(f)
ReadFile(f) ==
    IF ~f.exists THEN "FileNotFoundError"
    ELSE IF \E i \in 1..Len(f.text) : f.text[i] = "bad" THEN "UnicodeDecodeError"
    ELSE "ok"

\* What an interrupted write of `text` can leave behind: open(name, 'w') has
\* truncated the file, and any proper prefix of the text has reached the disk;
\* the cut may fall inside an object literal, in the middle of a character.
PartialTexts(text) ==
    { SubSeq(text, 1, k) : k \in 0..(Len(text) - 1) }
    \cup { Append(SubSeq(text, 1, k), "bad") :
             k \in { n \in 0..(Len(text) - 1) : text[n + 1] \in {"Mi", "Ti"} } }

\* with open(name, 'w', encoding='utf-8') as f: json.dump(value, f, indent=2, ...)
\* Either the whole text is written, or open() fails and the file is as before,
\* or the write is interrupted after the truncation.
WriteFile(old, text) ==
    { [ok |-> TRUE, file |-> FileOf(text)] }
    \cup { [ok |-> FALSE, file |-> old] }
    \cup { [ok |-> FALSE, file |-> FileOf(t)] : t \in PartialTexts(text) }

-----------------------------------------------------------------------------
(* Inputs from the environment                                             *)

\* What requests.get(...).text can be
Pages == {<<"page">>}

\* What model.generate_content(prompt).text can be, when the call returns
Garbage   == <<"x">>
Truncated == <<"[", "M">>
TitleOnly == <<"T">>
EmptyList == <<"[", "]">>
OneMovie  == <<"[", "M", "]">>
TwoMovies == <<"[", "M", ",", "M", "]">>

Candidates == {Garbage, Truncated, TitleOnly, EmptyList, OneMovie, TwoMovies}

\* A response of the model: raw text, or an exception of the API call
\* (safety block, transport failure).
Responses ==
    { [err |-> FALSE, text |-> t] : t \in Candidates }
    \cup { [err |-> TRUE, text |-> <<>>] }

-----------------------------------------------------------------------------
(* Prompts                                                                 *)

\* The documents a prompt embeds: none, or one.
NoDoc == <<>>
Doc(html) == <<html>>

\* scraper.py:99
ExtractPrompt(html_content) ==
    [form |-> "extract", doc |-> Doc(html_content), text |-> <<>>, msg |-> "", pos |-> 0]

\* The correction prompt that reports the error only, without the text it is
\* about.
CorrectionPrompt_NoOutput(e, json_text) ==
    [form |-> "correct", doc |-> NoDoc, text |-> <<>>, msg |-> e.msg, pos |-> e.pos]

\* scraper.py:123
CorrectionPrompt(e, json_text) ==
    [form |-> "correct", doc |-> NoDoc, text |-> json_text, msg |-> e.msg, pos |-> e.pos]

\* fixer.py:48-61
FixPrompt(source_html, broken_json_text) ==
    [form |-> "fix", doc |-> Doc(source_html), text |-> broken_json_text, msg |-> "", pos |-> 0]

\* fixer.py:85-95
RefixPrompt(e, fixed_json_text) ==
    [form |-> "refix", doc |-> NoDoc, text |-> fixed_json_text, msg |-> e.msg, pos |-> e.pos]

NoPrompt == [form |-> "none", doc |-> NoDoc, text |-> <<>>, msg |-> "", pos |-> 0]

-----------------------------------------------------------------------------
(* Process state                                                           *)

Procs == {"a", "b"}

\* The processes a scheduler that serializes the runs uses.
SerialProcs == {"a"}

\* No run has saved a candidate yet.
NoOut == [some |-> FALSE, val |-> PyNone]

\* The candidate a run has saved.
Out(v) == [some |-> TRUE, val |-> v]

Fresh ==
    [ kind    |-> "none",      \* "primary" (scraper.py) or "fixer" (fixer.py)
      pc      |-> "idle",      \* idle, fetch, call, await, sleep, done
      API_KEY |-> FALSE,       \* whether the environment variable is set
      attempt |-> 0,
      last_known_good_data |-> PyNone,
      html_content     |-> <<>>,     \* scraper: html_content; fixer: source_html
      broken_json_text |-> <<>>,
      prompt  |-> NoPrompt,
      \* history of the run
      startSlot |-> Absent,    \* movies.json when the run started
      loaded  |-> FALSE,       \* "Successfully loaded last known good data"
      fetches |-> 0,           \* requests.get calls
      calls   |-> 0,           \* model.generate_content calls
      sent    |-> <<>>,        \* the prompts passed to them
      hist    |-> <<>>,        \* their responses
      pauses  |-> 0,           \* time.sleep calls
      commits |-> 0,           \* writes of a parsed candidate to movies.json
      restores |-> 0,          \* writes of last_known_good_data to movies.json
      writeFailed |-> FALSE,   \* some write of the run raised
      outcome |-> "none",      \* NoKey, NotNeeded, FetchError, Succeeded, Exhausted, Crashed
      cause   |-> "none",      \* of Exhausted: init, invalid, model, persist
      ret     |-> "none",      \* True, False, None, raise
      \* history of the runs before this one
      prevKind    |-> "none",  \* the kind of the run before
      prevOutcome |-> "none",  \* and its outcome
      lastOut     |-> NoOut ]  \* the candidate of the latest completed save

\* What a run that starts knows of the runs before it.
After(c) == [Fresh EXCEPT !.prevKind = c.kind, !.prevOutcome = c.outcome,
                          !.lastOut = c.lastOut]

Init ==
    /\ slot \in { Absent,
                  FileOf(Dumps(PyList(<<"movie">>))),
                  FileOf(Dumps(PyList(<<>>))),
                  FileOf(<<"[", "ws">>) }
    /\ \E art \in { <<Absent, Absent>>,
                     <<FileOf(Truncated), FileOf(<<"oldpage">>)>>,
                     <<FileOf(Truncated), Absent>> } :
         temp = art[1] /\ srcfile = art[2]
    /\ ctx = [p \in Procs |-> Fresh]
    /\ runs = 0

Idle(p) == ctx[p].pc \in {"idle", "done"}

Set(p, c) == ctx' = [ctx EXCEPT ![p] = c]

-----------------------------------------------------------------------------
(* scraper.py: fetch_and_process_movies                                    *)

\* scraper.py:70-76: the value of last_known_good_data after the try block.
\* json.load raises JSONDecodeError on text that is not JSON; open() raises
\* FileNotFoundError; both are caught. A file that cannot be decoded raises
\* UnicodeDecodeError, which is not caught.
LoadGood(f) ==
    LET rd == ReadFile(f)
        r  == Loads(f.text)
    IN  CASE rd = "FileNotFoundError"  -> [raised |-> FALSE, loaded |-> FALSE, val |-> PyNone]
          [] rd = "UnicodeDecodeError" -> [raised |-> TRUE,  loaded |-> FALSE, val |-> PyNone]
          [] OTHER -> IF r.ok THEN [raised |-> FALSE, loaded |-> TRUE,  val |-> r.val]
                      ELSE [raised |-> FALSE, loaded |-> FALSE, val |-> PyNone]

\* The check of the key left out: the run goes on without one.
KeyMissing_Unchecked(key) == FALSE

\* scraper.py:63 and fixer.py:31: `if not API_KEY`
KeyMissing(key) == ~key

\* scraper.py:63-76: the API key check and the load of the last known good data.
StartPrimary(p) ==
    /\ Idle(p)
    /\ runs < MaxRuns
    /\ runs' = runs + 1
    /\ \E key \in BOOLEAN :
         LET c0 == [After(ctx[p]) EXCEPT !.kind = "primary", !.API_KEY = key,
                                            !.startSlot = slot]
             g  == LoadGood(slot)
         IN  IF KeyMissing(key)
             THEN Set(p, [c0 EXCEPT !.pc = "done", !.outcome = "NoKey", !.ret = "False"])
             ELSE IF g.raised
             THEN Set(p, [c0 EXCEPT !.pc = "done", !.outcome = "Crashed", !.ret = "raise"])
             ELSE Set(p, [c0 EXCEPT !.pc = "fetch", !.loaded = g.loaded,
                                    !.last_known_good_data = g.val])
    /\ UNCHANGED <<slot, temp, srcfile>>

\* The retry branch written as `except Exception`: it takes the errors of the
\* API call too.
IsJSONDecodeError_AnyException(resp) == resp.err \/ ~Loads(resp.text).ok

\* scraper.py:118 and fixer.py:80: `except json.JSONDecodeError` takes the
\* exceptions json.loads raises; an exception of the API call is left to
\* `except Exception` (scraper.py:129, fixer.py:101).
IsJSONDecodeError(resp) == ~resp.err /\ ~Loads(resp.text).ok

\* scraper.py:120 and fixer.py:82
CanRetry(attempt) == attempt < MAX_RETRIES

\* scraper.py:106 and fixer.py:68: generate_content is called with the prompt.
CallModel(p) ==
    /\ ctx[p].pc = "call"
    /\ Set(p, [ctx[p] EXCEPT !.pc = "await", !.calls = @ + 1,
                             !.sent = Append(@, ctx[p].prompt)])
    /\ UNCHANGED <<slot, temp, srcfile, runs>>

\* The loop going on to the next attempt at once, without time.sleep.
Sleep_NoPause(p) ==
    /\ ctx[p].pc = "sleep"
    /\ Set(p, [ctx[p] EXCEPT !.pc = "call", !.attempt = @ + 1])
    /\ UNCHANGED <<slot, temp, srcfile, runs>>

\* scraper.py:124 and fixer.py:96: the pause, then the next iteration of the loop.
Sleep(p) ==
    /\ ctx[p].pc = "sleep"
    /\ Set(p, [ctx[p] EXCEPT !.pc = "call", !.pauses = @ + 1, !.attempt = @ + 1])
    /\ UNCHANGED <<slot, temp, srcfile, runs>>

\* scraper.py:140: whether the handler re-saves the old data.
ShouldRestore(c) == Truthy(c.last_known_good_data)

\* scraper.py:136-146: the outer handler. `cur` is movies.json when it is entered.
\* A write error inside the handler is not caught: the function raises.
PrimaryFailed(p, c, cause, cur) ==
    LET d == [c EXCEPT !.pc = "done", !.outcome = "Exhausted", !.cause = cause]
    IN  /\ IF ShouldRestore(c)
           THEN \E w \in WriteFile(cur, Dumps(c.last_known_good_data)) :
                  /\ slot' = w.file
                  /\ Set(p, [d EXCEPT !.restores = @ + 1,
                                      !.writeFailed = @ \/ ~w.ok,
                                      !.ret = IF w.ok THEN "False" ELSE "raise"])
           ELSE /\ slot' = cur
                /\ Set(p, [d EXCEPT !.ret = "False"])
        /\ UNCHANGED <<temp, srcfile, runs>>

\* scraper.py:78-99: the fetch, which returns on a RequestException; then the
\* set-up of the model and the first prompt, inside the outer try block, so that
\* an exception there is handled like a failure of the loop.
Fetch(p) ==
    /\ ctx[p].kind = "primary"
    /\ ctx[p].pc = "fetch"
    /\ \/ \E html \in Pages :
            /\ Set(p, [ctx[p] EXCEPT !.pc = "call", !.fetches = @ + 1, !.attempt = 0,
                                     !.html_content = html, !.prompt = ExtractPrompt(html)])
            /\ UNCHANGED <<slot, temp, srcfile, runs>>
       \/ /\ Set(p, [ctx[p] EXCEPT !.pc = "done", !.fetches = @ + 1,
                                   !.outcome = "FetchError", !.ret = "False"])
          /\ UNCHANGED <<slot, temp, srcfile, runs>>
       \/ \E html \in Pages :
            PrimaryFailed(p, [ctx[p] EXCEPT !.fetches = @ + 1, !.html_content = html],
                          "init", slot)

\* scraper.py:107-134: the response of the model is parsed; valid JSON is saved,
\* invalid JSON is fed back or ends the loop, any other exception ends the loop.
PrimaryReturns(p) ==
    /\ ctx[p].kind = "primary"
    /\ ctx[p].pc = "await"
    /\ \E resp \in Responses :
         LET c == [ctx[p] EXCEPT !.hist = Append(@, resp)]
             r == Loads(resp.text)
         IN  IF ~resp.err /\ r.ok
             THEN \E w \in WriteFile(slot, Dumps(r.val)) :
                    IF w.ok
                    THEN /\ slot' = w.file
                         /\ Set(p, [c EXCEPT !.pc = "done", !.commits = @ + 1,
                                             !.outcome = "Succeeded", !.ret = "True",
                                             !.lastOut = Out(r.val)])
                         /\ UNCHANGED <<temp, srcfile, runs>>
                    ELSE PrimaryFailed(p, [c EXCEPT !.commits = @ + 1, !.writeFailed = TRUE],
                                       "persist", w.file)
             ELSE IF IsJSONDecodeError(resp)
             THEN IF CanRetry(c.attempt)
                  THEN /\ Set(p, [c EXCEPT !.pc = "sleep",
                                           !.prompt = CorrectionPrompt(r, resp.text)])
                       /\ UNCHANGED <<slot, temp, srcfile, runs>>
                  ELSE PrimaryFailed(p, c, "invalid", slot)
             ELSE PrimaryFailed(p, c, "model", slot)

-----------------------------------------------------------------------------
(* fixer.py: fix_broken_json                                               *)

\* fixer.py:25-61: the checks, the two reads, the set-up of the model and the
\* first prompt. None of them is inside a try block.
StartFixer(p) ==
    /\ Idle(p)
    /\ runs < MaxRuns
    /\ runs' = runs + 1
    /\ \E key \in BOOLEAN :
         LET c0 == [After(ctx[p]) EXCEPT !.kind = "fixer", !.API_KEY = key,
                                            !.startSlot = slot]
         IN  IF ~temp.exists
             THEN Set(p, [c0 EXCEPT !.pc = "done", !.outcome = "NotNeeded", !.ret = "None"])
             ELSE IF KeyMissing(key)
             THEN Set(p, [c0 EXCEPT !.pc = "done", !.outcome = "NoKey", !.ret = "None"])
             ELSE IF ReadFile(temp) # "ok" \/ ReadFile(srcfile) # "ok"
             THEN Set(p, [c0 EXCEPT !.pc = "done", !.outcome = "Crashed", !.ret = "raise"])
             ELSE \/ Set(p, [c0 EXCEPT !.pc = "done", !.outcome = "Crashed", !.ret = "raise",
                                       !.broken_json_text = temp.text,
                                       !.html_content = srcfile.text])
                  \/ Set(p, [c0 EXCEPT !.pc = "call", !.attempt = 0,
                                       !.broken_json_text = temp.text,
                                       !.html_content = srcfile.text,
                                       !.prompt = FixPrompt(srcfile.text, temp.text)])
    /\ UNCHANGED <<slot, temp, srcfile>>

\* The fixer with one retry fewer than the scraper.
FixerCanRetry_OneFewer(attempt) == attempt < MAX_RETRIES - 1

\* fixer.py:82, with the MAX_RETRIES of fixer.py:13, which has the value of the
\* scraper's.
FixerCanRetry(attempt) == attempt < MAX_RETRIES

\* The fixer removing a repaired file once its repair is saved.
KeepArtifact_RemovedOnSuccess(f) == Absent

\* fixer.py:74-78: the success path writes movies.json and returns; nothing in
\* fixer.py writes or removes movies_temp.json or source_page.html.
KeepArtifact(f) == f

\* The fixer saving the broken text as the output when it gives up.
FixerFailed_SavesBroken(p, c, cause, cur) ==
    /\ slot' = FileOf(c.broken_json_text)
    /\ Set(p, [c EXCEPT !.pc = "done", !.outcome = "Exhausted", !.cause = cause,
                        !.ret = "None"])

\* fixer.py:98-104: both handlers print and return; movies.json stays as it is
\* when they are entered (`cur`).
FixerFailed(p, c, cause, cur) ==
    /\ slot' = cur
    /\ Set(p, [c EXCEPT !.pc = "done", !.outcome = "Exhausted", !.cause = cause,
                        !.ret = "None"])

\* fixer.py:69-104: as in the scraper, but every failure just returns.
FixerReturns(p) ==
    /\ ctx[p].kind = "fixer"
    /\ ctx[p].pc = "await"
    /\ \E resp \in Responses :
         LET c == [ctx[p] EXCEPT !.hist = Append(@, resp)]
             r == Loads(resp.text)
         IN  IF ~resp.err /\ r.ok
             THEN \E w \in WriteFile(slot, Dumps(r.val)) :
                    IF w.ok
                    THEN /\ slot' = w.file
                         /\ temp' = KeepArtifact(temp)
                         /\ srcfile' = KeepArtifact(srcfile)
                         /\ Set(p, [c EXCEPT !.pc = "done", !.commits = @ + 1,
                                             !.outcome = "Succeeded", !.ret = "None",
                                             !.lastOut = Out(r.val)])
                    ELSE /\ FixerFailed(p, [c EXCEPT !.commits = @ + 1,
                                                     !.writeFailed = TRUE],
                                        "persist", w.file)
                         /\ UNCHANGED <<temp, srcfile>>
             ELSE IF IsJSONDecodeError(resp)
             THEN IF FixerCanRetry(c.attempt)
                  THEN /\ Set(p, [c EXCEPT !.pc = "sleep",
                                           !.prompt = RefixPrompt(r, resp.text)])
                       /\ UNCHANGED <<slot, temp, srcfile>>
                  ELSE /\ FixerFailed(p, c, "invalid", slot)
                       /\ UNCHANGED <<temp, srcfile>>
             ELSE /\ FixerFailed(p, c, "model", slot)
                  /\ UNCHANGED <<temp, srcfile>>
    /\ UNCHANGED runs

-----------------------------------------------------------------------------
(* Specifications                                                          *)

Step(p) ==
    \/ Fetch(p)
    \/ CallModel(p)
    \/ PrimaryReturns(p)
    \/ FixerReturns(p)
    \/ Sleep(p)

\* Runs are serialized by whatever starts them (a scheduler): a run starts only
\* when no other is in progress.
Next ==
    \E p \in SerialProcs :
        \/ StartPrimary(p)
        \/ StartFixer(p)
        \/ Step(p)

Spec == Init /\ [][Next]_vars

\* Nothing serializes the runs: two processes, each running one of the scripts
\* once, take their steps in any order over the same files. The disk is taken
\* to be sound here (every write completes), so that what is seen is the effect
\* of the interleaving alone.
NextOverlap ==
    \E p \in Procs :
        /\ \/ ctx[p].kind = "none" /\ StartPrimary(p)
           \/ ctx[p].kind = "none" /\ StartFixer(p)
           \/ Step(p)
        /\ ~ctx'[p].writeFailed

SpecOverlap == Init /\ [][NextOverlap]_vars

-----------------------------------------------------------------------------
(* Vocabulary of the properties                                            *)

Done(p) == ctx[p].pc = "done"
IsPrimary(p) == ctx[p].kind = "primary"
IsFixer(p) == ctx[p].kind = "fixer"

\* The file can be read and holds JSON.
Parses(f) == ReadFile(f) = "ok" /\ Loads(f.text).ok

\* A good output: JSON that conforms to the schema.
GoodFile(f) == Parses(f) /\ SchemaConformant(Loads(f.text).val)

\* The file holds, completely, the value v.
Holds(f, v) == Parses(f) /\ Loads(f.text).val = v

\* A candidate the validator of the design accepts: valid JSON of the schema's shape.
ValidCandidate(resp) ==
    /\ ~resp.err
    /\ Loads(resp.text).ok
    /\ SchemaConformant(Loads(resp.text).val)

\* A candidate it rejects (ValidationError or SchemaError).
InvalidCandidate(resp) == ~resp.err /\ ~ValidCandidate(resp)

\* The loop of the run was entered and has ended.
LoopEnded(p) ==
    /\ Done(p)
    /\ ctx[p].outcome \in {"Succeeded", "Exhausted"}
    /\ Len(ctx[p].hist) >= 1

LastResp(p) == ctx[p].hist[Len(ctx[p].hist)]

-----------------------------------------------------------------------------
(* C1 *)

\* C1: after a primary run that ended in Exhausted (every candidate invalid, or
\* an error of the model call) and that started with a good output O in
\* movies.json, movies.json holds O, completely.
C1_FallbackGuarantee ==
    \A p \in Procs :
        ( /\ IsPrimary(p) /\ Done(p)
          /\ ctx[p].outcome = "Exhausted"
          /\ ctx[p].cause \in {"invalid", "model"}
          /\ GoodFile(ctx[p].startSlot) )
        => Holds(slot, Loads(ctx[p].startSlot.text).val)

-----------------------------------------------------------------------------
(* C2 *)

\* C2: no run makes more than MAX_RETRIES+1 extraction calls, and a run whose
\* loop has ended with every candidate invalid ended in Exhausted after exactly
\* MAX_RETRIES+1 calls. (Stated of the runs in which no write failed.)
C2_RetryBound ==
    \A p \in Procs :
        /\ ctx[p].calls <= MAX_RETRIES + 1
        /\ ( /\ LoopEnded(p)
             /\ ~ctx[p].writeFailed
             /\ \A i \in 1..Len(ctx[p].hist) : InvalidCandidate(ctx[p].hist[i]) )
           => ( /\ ctx[p].outcome = "Exhausted"
                /\ ctx[p].calls = MAX_RETRIES + 1 )

-----------------------------------------------------------------------------
(* C3 *)

\* C3: the loop ends at the first valid candidate and not before. When the
\* candidates 1..N were invalid and candidate N+1 is valid JSON of the schema's
\* shape, the loop ended in Succeeded after N+1 calls and movies.json holds the
\* value of candidate N+1; and while attempts remain, the loop has not ended on
\* invalid candidates alone. (Stated of the runs in which no write failed.)
C3_SuccessOnFirstValid ==
    \A p \in Procs :
        LET h == ctx[p].hist
            n == Len(h)
        IN  /\ ( /\ LoopEnded(p) /\ n >= 1
                 /\ ~ctx[p].writeFailed
                 /\ \A i \in 1..(n - 1) : InvalidCandidate(h[i])
                 /\ ValidCandidate(h[n]) )
               => ( /\ ctx[p].outcome = "Succeeded"
                    /\ ctx[p].calls = n
                    /\ Holds(slot, Loads(h[n].text).val) )
            /\ ( /\ LoopEnded(p)
                 /\ ~ctx[p].writeFailed
                 /\ \A i \in 1..n : InvalidCandidate(h[i]) )
               => n = MAX_RETRIES + 1

-----------------------------------------------------------------------------
(* C4 *)

\* C4: a run whose fetch failed has made no extraction call; and an error of the
\* model call is the last response of its run: the run is over, in Exhausted,
\* the number of calls is the position of the error, and no pause followed it.
C4_FatalShortCircuit ==
    \A p \in Procs :
        /\ ctx[p].outcome = "FetchError"
              => (Done(p) /\ ctx[p].calls = 0 /\ ctx[p].hist = <<>>)
        /\ \A i \in 1..Len(ctx[p].hist) :
              ctx[p].hist[i].err
              => ( /\ i = Len(ctx[p].hist)
                   /\ ctx[p].calls = i
                   /\ ctx[p].pauses = i - 1
                   /\ Done(p)
                   /\ ctx[p].outcome = "Exhausted" )

\* The model call of the last attempt of a primary run failed.
C4_Witness ==
    \E p \in Procs :
        /\ IsPrimary(p) /\ Done(p)
        /\ Len(ctx[p].hist) = MAX_RETRIES + 1
        /\ LastResp(p).err

-----------------------------------------------------------------------------
(* C5 *)

\* C5: a candidate that is valid JSON but not of the schema's shape is never
\* committed: no run has ended in Succeeded on such a candidate, and when
\* retries remain the run goes on. (Stated of the runs in which no write failed.)
C5_SchemaRejected ==
    \A p \in Procs :
        \A i \in 1..Len(ctx[p].hist) :
            ( /\ ~ctx[p].writeFailed
              /\ ~ctx[p].hist[i].err
              /\ Loads(ctx[p].hist[i].text).ok
              /\ ~SchemaConformant(Loads(ctx[p].hist[i].text).val) )
            => ( /\ ctx[p].commits = 0
                 /\ (i <= MAX_RETRIES => ~Done(p) \/ i < Len(ctx[p].hist)) )

-----------------------------------------------------------------------------
(* C6 *)

\* C6: after a primary run that ended in Exhausted on invalid candidates,
\* movies_temp.json holds the invalid output and source_page.html holds the
\* fetched page.
C6_HandOff ==
    \A p \in Procs :
        ( /\ IsPrimary(p) /\ Done(p)
          /\ ctx[p].outcome = "Exhausted"
          /\ ctx[p].cause = "invalid" )
        => ( /\ temp = FileOf(LastResp(p).text)
             /\ srcfile = FileOf(ctx[p].html_content) )

-----------------------------------------------------------------------------
(* C7 *)

\* C7: a step changes movies.json only by writing the value of a candidate that
\* has just passed validation, or by writing, after the loop has failed, the
\* last known good value that the same run loaded at its start.
C7_SlotWrites ==
    [][ slot' # slot =>
          \E p \in Procs :
             \/ /\ ctx'[p].commits = ctx[p].commits + 1
                /\ ValidCandidate(ctx'[p].hist[Len(ctx'[p].hist)])
                /\ slot' = FileOf(Dumps(Loads(ctx'[p].hist[Len(ctx'[p].hist)].text).val))
             \/ /\ ctx'[p].restores = ctx[p].restores + 1
                /\ ctx'[p].outcome = "Exhausted"
                /\ ctx[p].loaded
                /\ Holds(ctx[p].startSlot, ctx[p].last_known_good_data)
                /\ slot' = FileOf(Dumps(ctx[p].last_known_good_data)) ]_vars

-----------------------------------------------------------------------------
(* C8 *)

\* C8: after a run in which the write of a validated output failed, movies.json
\* holds the complete old content or the complete new content.
C8_AtomicCommit ==
    \A p \in Procs :
        ( /\ Done(p)
          /\ ctx[p].outcome = "Exhausted"
          /\ ctx[p].cause = "persist"
          /\ ValidCandidate(LastResp(p)) )
        => \/ slot = ctx[p].startSlot
           \/ /\ Parses(ctx[p].startSlot)
              /\ Holds(slot, Loads(ctx[p].startSlot.text).val)
           \/ Holds(slot, Loads(LastResp(p).text).val)

-----------------------------------------------------------------------------
(* C9 *)

\* The slot was absent or corrupt when the run started.
NoGoodAtStart(p) == ~Parses(ctx[p].startSlot)

\* C9: a primary run (with an API key) that found movies.json absent or corrupt
\* has no fallback, has gone on to the fetch, and had not written movies.json
\* when it got there.
C9_LoadNeverFails ==
    \A p \in Procs :
        (IsPrimary(p) /\ ctx[p].API_KEY /\ NoGoodAtStart(p))
        => ( /\ ctx[p].outcome # "Crashed"
             /\ ~ctx[p].loaded
             /\ ctx[p].last_known_good_data = PyNone
             /\ ctx[p].pc = "fetch" => slot = ctx[p].startSlot
             /\ ctx[p].pc = "done" => ctx[p].fetches = 1 )

-----------------------------------------------------------------------------
(* C10 *)

\* No fetch, no extraction call, no write.
NoWork(p) ==
    /\ ctx[p].fetches = 0
    /\ ctx[p].calls = 0
    /\ ctx[p].commits = 0
    /\ ctx[p].restores = 0
    /\ slot = ctx[p].startSlot

\* C10 as stated: without an API key, every run, of the scraper and of the
\* fixer, is over at once, has reported the failure and has done no work.
C10_NoKeyFailsAtOnce ==
    \A p \in Procs :
        (ctx[p].kind # "none" /\ ~ctx[p].API_KEY)
        => (Done(p) /\ ctx[p].outcome = "NoKey" /\ NoWork(p))

\* C10 as amended: without an API key every run is over at once and has done no
\* work; the scraper reports the failure (returns False); the fixer reports it
\* when movies_temp.json exists, and otherwise reports that it is not needed.
C10_NoKeyNoWork ==
    \A p \in Procs :
        (ctx[p].kind # "none" /\ ~ctx[p].API_KEY)
        => ( /\ Done(p)
             /\ NoWork(p)
             /\ IsPrimary(p) => (ctx[p].outcome = "NoKey" /\ ctx[p].ret = "False")
             /\ IsFixer(p) =>
                  ctx[p].outcome = (IF temp.exists THEN "NoKey" ELSE "NotNeeded") )

\* A fixer run that found the broken artifact and no API key.
C10_Witness ==
    \E p \in Procs :
        IsFixer(p) /\ ~ctx[p].API_KEY /\ temp.exists /\ ctx[p].outcome = "NoKey"

-----------------------------------------------------------------------------
(* C11 *)

\* The run before the run of p was a scraper run that saved a candidate the
\* validator of the design accepts; lastOut is that candidate.
AfterGoodPrimary(p) ==
    /\ ctx[p].prevKind = "primary"
    /\ ctx[p].prevOutcome = "Succeeded"
    /\ ctx[p].lastOut.some
    /\ SchemaConformant(ctx[p].lastOut.val)

\* C11: when a scraper run saves a validated output V and the next scraper run
\* loads movies.json and ends in Exhausted, the value loaded equals V and
\* movies.json after the second run holds V.
C11_RoundTrip ==
    \A p \in Procs :
        (IsPrimary(p) /\ AfterGoodPrimary(p) /\ LoopEnded(p)
           /\ ctx[p].outcome = "Exhausted")
        => ( /\ ctx[p].loaded
             /\ ctx[p].last_known_good_data = ctx[p].lastOut.val
             /\ Holds(slot, ctx[p].lastOut.val) )

-----------------------------------------------------------------------------
(* C12 *)

\* The run of p saved a candidate the validator of the design accepts, and
\* movies.json holds it.
CommittedValidated(p) ==
    /\ ctx[p].outcome = "Succeeded"
    /\ ctx[p].commits = 1
    /\ ValidCandidate(LastResp(p))
    /\ Holds(slot, Loads(LastResp(p).text).val)

\* C12: fetch_and_process_movies returns True exactly when the run reached
\* Succeeded and saved a newly validated output; on every failure path (no API
\* key, FetchError, ModelError, Exhausted with or without a restore) it returns
\* False.
C12_OutcomeSignal ==
    \A p \in Procs :
        (IsPrimary(p) /\ Done(p))
        => ( /\ (ctx[p].ret = "True") <=> CommittedValidated(p)
             /\ ctx[p].outcome \in {"NoKey", "FetchError", "Exhausted"}
                  => ctx[p].ret = "False" )

-----------------------------------------------------------------------------
(* C13 *)

\* The prompt q feeds back the response resp: it embeds its text and the
\* message (with the position) json.loads raised on it, and neither is empty.
FeedsBack(q, resp) ==
    /\ q.form \in {"correct", "refix"}
    /\ ~resp.err
    /\ q.text = resp.text
    /\ q.text # <<>>
    /\ ~Loads(resp.text).ok
    /\ q.msg = Loads(resp.text).msg
    /\ q.pos = Loads(resp.text).pos
    /\ q.msg # ""

\* C13: in the scraper and in the fixer, the prompt of every retry embeds the
\* raw output and the parse error of the attempt just before it, not those of
\* an earlier attempt and not an empty value. The prompt built for a retry that
\* has not been sent yet is included.
C13_FeedbackConditioning ==
    \A p \in Procs :
        /\ \A i \in 1..Len(ctx[p].sent) :
             IF i = 1
             THEN ctx[p].sent[i].form \in {"extract", "fix"}
             ELSE FeedsBack(ctx[p].sent[i], ctx[p].hist[i - 1])
        /\ Len(ctx[p].sent) = ctx[p].calls
        /\ ctx[p].calls <= MAX_RETRIES + 1
        /\ ctx[p].pc \in {"sleep", "call"} /\ Len(ctx[p].hist) >= 1
             => FeedsBack(ctx[p].prompt, LastResp(p))

\* A scraper run whose third prompt was sent after two different invalid
\* candidates with different errors.
C13_Witness ==
    \E p \in Procs :
        /\ IsPrimary(p)
        /\ Len(ctx[p].sent) = MAX_RETRIES + 1
        /\ ctx[p].hist[1] # ctx[p].hist[2]
        /\ Loads(ctx[p].hist[1].text).msg # Loads(ctx[p].hist[2].text).msg

-----------------------------------------------------------------------------
(* C14 *)

\* C14: at every attempt, in the scraper and in the fixer, what is passed to
\* the model contains the source document (the fetched page, or the saved
\* source_page.html) together with the prompt of the attempt.
C14_SourceGiven ==
    \A p \in Procs :
        \A i \in 1..Len(ctx[p].sent) :
            ctx[p].sent[i].doc = Doc(ctx[p].html_content)

-----------------------------------------------------------------------------
(* C15 *)

\* C15: in a scraper run the restore write is made exactly when the run ended
\* in Exhausted and the load at its start returned a prior good state, whatever
\* the loaded value is, the empty array included; it is made once, and what a
\* completed restore has written is the loaded value. Stated of the runs in
\* which the set-up of the model did not fail.
C15_RestoreWhenNeeded ==
    \A p \in Procs :
        (IsPrimary(p) /\ ctx[p].cause # "init")
        => ( /\ ctx[p].restores <= 1
             /\ (ctx[p].restores = 1)
                  <=> (Done(p) /\ ctx[p].outcome = "Exhausted" /\ ctx[p].loaded)
             /\ (ctx[p].restores = 1 /\ ctx[p].ret = "False")
                  => slot = FileOf(Dumps(ctx[p].last_known_good_data)) )

-----------------------------------------------------------------------------
(* C16 *)

\* The loop of the fixer run of p gave up: its last candidate was invalid and
\* no retry was left, or the model call raised.
FixerGaveUp(p) ==
    /\ IsFixer(p)
    /\ Done(p)
    /\ ctx[p].outcome = "Exhausted"
    /\ ctx[p].cause \in {"invalid", "model"}

\* C16: when the loop of the fixer ends in Exhausted, movies_temp.json and
\* source_page.html are as the run read them, movies.json is as it was when
\* the run started, and the run has written nothing: no save, no restore.
C16_FixerExhaustedFrame ==
    \A p \in Procs :
        FixerGaveUp(p)
        => ( /\ temp = FileOf(ctx[p].broken_json_text)
             /\ srcfile = FileOf(ctx[p].html_content)
             /\ slot = ctx[p].startSlot
             /\ ctx[p].commits = 0
             /\ ctx[p].restores = 0 )

\* A fixer run that gave up after MAX_RETRIES + 1 invalid candidates, over a
\* movies.json that held data.
C16_Witness ==
    \E p \in Procs :
        /\ FixerGaveUp(p)
        /\ ctx[p].cause = "invalid"
        /\ ctx[p].calls = MAX_RETRIES + 1
        /\ GoodFile(ctx[p].startSlot)

-----------------------------------------------------------------------------
(* C18 *)

\* The pauses a run has made when it has made n extraction calls and is not
\* about to make the next: one between every two consecutive calls.
PausesBetween(n) == IF n = 0 THEN 0 ELSE n - 1

\* C18: within a run the extraction calls are sequential (a call is made only
\* when every earlier call has returned); exactly one pause lies between two
\* consecutive calls; there is no pause before the first call, after a
\* success, after the last failed attempt or after a ModelError.
C18_CallsAndPauses ==
    \A p \in Procs :
        /\ ctx[p].calls - Len(ctx[p].hist) = (IF ctx[p].pc = "await" THEN 1 ELSE 0)
        /\ ctx[p].pauses = (IF ctx[p].pc = "call" THEN ctx[p].calls
                                                  ELSE PausesBetween(ctx[p].calls))
        /\ ctx[p].pauses <= MAX_RETRIES
        /\ ctx[p].pc = "sleep"
             => (IsJSONDecodeError(LastResp(p)) /\ Len(ctx[p].hist) <= MAX_RETRIES)
        /\ (Done(p) /\ Len(ctx[p].hist) >= 1 /\ ~IsJSONDecodeError(LastResp(p)))
             => ctx[p].pauses = Len(ctx[p].hist) - 1

\* A run that is about to make its third call, after two pauses.
C18_Witness ==
    \E p \in Procs :
        ctx[p].pc = "call" /\ ctx[p].calls = MAX_RETRIES /\ ctx[p].pauses = MAX_RETRIES

-----------------------------------------------------------------------------
(* C19 *)

\* The run of p is a fixer run, and the run before it was a fixer run that
\* ended in Succeeded.
AfterFixerSuccess(p) ==
    /\ IsFixer(p)
    /\ ctx[p].prevKind = "fixer"
    /\ ctx[p].prevOutcome = "Succeeded"

\* C19: the fixer leaves movies_temp.json and source_page.html as it read them
\* on every path, success included; so a fixer run that follows a fixer run
\* that ended in Succeeded finds the broken artifact again and is activated,
\* makes at least one extraction call before it ends (given the API key and the
\* set-up of the model, which the run before had), and again replaces
\* movies.json by the first candidate json.loads accepts.
C19_FixerRepeats ==
    \A p \in Procs :
        /\ (IsFixer(p) /\ ctx[p].pc # "done")
             => (temp = FileOf(ctx[p].broken_json_text)
                 /\ srcfile = FileOf(ctx[p].html_content))
        /\ (IsFixer(p) /\ LoopEnded(p))
             => (temp = FileOf(ctx[p].broken_json_text)
                 /\ srcfile = FileOf(ctx[p].html_content))
        /\ AfterFixerSuccess(p)
             => ( /\ temp.exists
                  /\ ctx[p].outcome # "NotNeeded"
                  /\ (Done(p) /\ ctx[p].API_KEY /\ ctx[p].outcome # "Crashed")
                       => ctx[p].calls >= 1
                  /\ ctx[p].outcome = "Succeeded"
                       => ( /\ Loads(LastResp(p).text).ok
                            /\ slot = FileOf(Dumps(Loads(LastResp(p).text).val)) ) )

\* The second of two fixer runs that both ended in Succeeded has replaced the
\* output of the first by another.
C19_Witness ==
    \E p \in Procs :
        /\ AfterFixerSuccess(p)
        /\ ctx[p].outcome = "Succeeded"
        /\ GoodFile(ctx[p].startSlot)
        /\ slot # ctx[p].startSlot
        /\ ctx[p].calls >= 1

-----------------------------------------------------------------------------
(* C17 *)

\* The loop of the run of p has made a call.
InLoop(p) == ctx[p].calls >= 1

\* The runs of p and q are at the same place of the same loop: as many calls,
\* the same attempt number, as many pauses.
SamePlace(p, q) ==
    /\ ctx[p].calls = ctx[q].calls
    /\ ctx[p].attempt = ctx[q].attempt
    /\ ctx[p].pauses = ctx[q].pauses

\* C17: the loop of the fixer and the loop of the scraper are the same state
\* machine. Whenever a scraper run and a fixer run have received the same
\* responses so far, either both loops have ended or neither has; if they have
\* ended, they have ended in the same terminal state for the same reason after
\* the same calls, attempts and pauses; and at the same control point they are
\* at the same attempt with the same calls and pauses made.
C17_SameLoop ==
    \A p, q \in Procs :
        (IsPrimary(p) /\ IsFixer(q) /\ InLoop(p) /\ InLoop(q)
           /\ ctx[p].hist = ctx[q].hist)
        => ( /\ Done(p) <=> Done(q)
             /\ Done(p) => ( /\ ctx[p].outcome = ctx[q].outcome
                             /\ ctx[p].cause = ctx[q].cause
                             /\ SamePlace(p, q) )
             /\ ctx[p].pc = ctx[q].pc => SamePlace(p, q) )

\* A scraper run and a fixer run that both succeeded on their third attempt,
\* after the same two invalid candidates.
C17_Witness ==
    \E p, q \in Procs :
        /\ IsPrimary(p) /\ IsFixer(q)
        /\ ctx[p].hist = ctx[q].hist
        /\ Len(ctx[p].hist) = MAX_RETRIES + 1
        /\ ctx[p].outcome = "Succeeded"
        /\ ctx[q].outcome = "Succeeded"

-----------------------------------------------------------------------------
(* C20 *)

\* C20, runs that overlap: the restore of a scraper run writes the value the
\* run loaded at its start, whatever movies.json holds when the restore is
\* made.
C20_RestoreWritesLoaded ==
    [][ \A p \in Procs :
          ctx'[p].restores = ctx[p].restores + 1
          => slot' = FileOf(Dumps(ctx[p].last_known_good_data)) ]_vars

\* C20, runs that overlap: a run saved a validated output V after a scraper run
\* had loaded an older state; the scraper run then restored what it had
\* loaded, and V is gone from movies.json.
C20_LostUpdate ==
    \E p, q \in Procs :
        /\ p # q
        /\ IsPrimary(p) /\ Done(p) /\ ctx[p].restores = 1
        /\ Done(q) /\ ctx[q].outcome = "Succeeded"
        /\ ValidCandidate(LastResp(q))
        /\ Loads(LastResp(q).text).val # ctx[p].last_known_good_data
        /\ Holds(slot, ctx[p].last_known_good_data)

\* C20, runs that do not overlap: after any sequence of runs movies.json holds
\* the output of the most recent run that succeeded.
C20_LatestSuccessWins ==
    \A p \in SerialProcs :
        (Idle(p) /\ ctx[p].lastOut.some) => Holds(slot, ctx[p].lastOut.val)

====
